---------------------------- MODULE Spec2Model ----------------------------
(***************************************************************************)
(* ipstats (src/src/main.rs): a single-pass line scanner that tallies the  *)
(* addresses found in its sources into a frequency table (process_file),   *)
(* and a report builder that filters, sorts, limits, resolves and prints   *)
(* the table (print_stats), driven by main.                                *)
(*                                                                         *)
(* Strings are sequences of atoms.  An atom is a short run of characters   *)
(* that none of the modelled operations (trim, strip_prefix, the patterns) *)
(* ever splits: ":", "ffff", a dotted quad, " " and "\n".                  *)
(* Option<T> is a sequence of length 0 (None) or 1 (Some).                 *)
(***************************************************************************)
EXTENDS Integers, Sequences, FiniteSets, TLC

\* ------------------------------------------------------------------ bounds

\* Lines read over all sources of one run.
MaxLines == 3

\* File paths on the command line (0 means standard input).
MaxFiles == 2

\* Width of usize.  TLC's integers are 32 bits wide, so the 64-bit usize of
\* the build is modelled with 30 bits; the model only uses that the wrapped
\* index is larger than the number of matches of any line.
UsizeBits == 30

\* ----------------------------------------------------------------- options

None == << >>

Some(x) == << x >>

IsSome(o) == Len(o) = 1

Unwrap(o) == o[1]

\* ----------------------------------------------------------------- strings

Ipv4Atoms == {"1.2.3.4", "5.6.7.8"}

Whitespace == {" ", "\n"}

\* The literal "::ffff:" of strip_prefix.
MappedPrefix == <<":", ":", "ffff", ":">>

Mapped(ip) == MappedPrefix \o <<ip>>

\* The lines a source may hold, each with its terminator.
Lines ==
  { Mapped("1.2.3.4") \o <<" ", "5.6.7.8", "\n">>,   \* "::ffff:1.2.3.4 5.6.7.8"
    <<" ", "\n">>,                                   \* whitespace only
    <<" ", "5.6.7.8", " ", "\n">> }                  \* " 5.6.7.8 "

\* str::trim: the string without its leading and trailing whitespace.
RECURSIVE TrimStart(_)
TrimStart(s) ==
  IF s # << >> /\ Head(s) \in Whitespace THEN TrimStart(Tail(s)) ELSE s

RECURSIVE TrimEnd(_)
TrimEnd(s) ==
  IF s # << >> /\ s[Len(s)] \in Whitespace
  THEN TrimEnd(SubSeq(s, 1, Len(s) - 1))
  ELSE s

Trim(s) == TrimEnd(TrimStart(s))

\* str::strip_prefix: Some(rest) when s starts with prefix, None otherwise.
StripPrefix(s, prefix) ==
  IF Len(s) >= Len(prefix) /\ SubSeq(s, 1, Len(prefix)) = prefix
  THEN Some(SubSeq(s, Len(prefix) + 1, Len(s)))
  ELSE None

\* Option::unwrap_or
UnwrapOr(o, default) == IF IsSome(o) THEN Unwrap(o) ELSE default

\* ---------------------------------------------------------------- patterns

\* The patterns of a run: the built-in one (main.rs:142), the user's \S+ and
\* a user pattern that does not compile.
Patterns == {"default", "nonspace", "invalid"}

AtomAt(line, i) == IF i \in 1..Len(line) THEN line[i] ELSE "<end>"

\* Length of the built-in pattern's match starting at atom i, 0 for none.  A
\* dotted quad alone is no match: the pattern's only IPv4 alternative asks for
\* the "::ffff:" in front of it.  Where "::" starts a string over the atoms,
\* the alternatives that match are, in the pattern's order, "::ffff:" with a
\* dotted quad, then "::ffff" (":" and one ":ffff" group), then "::".
DefaultMatchLen(line, i) ==
  IF AtomAt(line, i) = ":" /\ AtomAt(line, i + 1) = ":"
  THEN IF AtomAt(line, i + 2) = "ffff"
       THEN IF AtomAt(line, i + 3) = ":" /\ AtomAt(line, i + 4) \in Ipv4Atoms
            THEN 5
            ELSE 3
       ELSE 2
  ELSE 0

\* Length of the \S+ match starting at atom i: the run of non-whitespace.
RECURSIVE NonspaceMatchLen(_, _)
NonspaceMatchLen(line, i) ==
  IF i \in 1..Len(line) /\ line[i] \notin Whitespace
  THEN 1 + NonspaceMatchLen(line, i + 1)
  ELSE 0

MatchLen(pattern, line, i) ==
  IF pattern = "default"
  THEN DefaultMatchLen(line, i)
  ELSE NonspaceMatchLen(line, i)

\* Regex::find_iter: the non-overlapping matches, left to right, from atom i.
RECURSIVE FindIterFrom(_, _, _)
FindIterFrom(pattern, line, i) ==
  IF i > Len(line)
  THEN << >>
  ELSE LET n == MatchLen(pattern, line, i)
       IN  IF n > 0
           THEN <<SubSeq(line, i, i + n - 1)>> \o FindIterFrom(pattern, line, i + n)
           ELSE FindIterFrom(pattern, line, i + 1)

FindIter(pattern, line) == FindIterFrom(pattern, line, 1)

\* Iterator::nth, zero-based.
Nth(s, n) == IF n < Len(s) THEN Some(s[n + 1]) ELSE None

\* ------------------------------------------------------------ process_file

\* usize subtraction as a build without overflow checks computes it.
WrappingSub(a, b) == (a - b + 2^UsizeBits) % 2^UsizeBits

\* Candidate with a blank line treated as having none in fixed mode.
CandidateSkipsBlank(line, pattern, key, fixed_ips) ==
  IF fixed_ips
  THEN IF Trim(line) = << >> THEN None ELSE Some(Trim(line))
  ELSE Nth(FindIter(pattern, line), key)

\* The candidate of a line (main.rs:27-33): the trimmed line in fixed mode,
\* the key-th match of the pattern otherwise; key is already zero-based.
Candidate(line, pattern, key, fixed_ips) ==
  IF fixed_ips
  THEN Some(Trim(line))
  ELSE Nth(FindIter(pattern, line), key)

\* The table key of a candidate (main.rs:44-47).
Normalize(m) == UnwrapOr(StripPrefix(m, MappedPrefix), m)

\* EntryIncrement without and_modify: a key seen again stays at 1.
EntryInsertOnly(table, k) ==
  [x \in DOMAIN table \cup {k} |-> IF x = k THEN 1 ELSE table[x]]

\* HashMap::entry(k).and_modify(|c| *c += 1).or_insert(1).  The counts of
\* MaxLines lines are far from the end of u32.
EntryIncrement(table, k) ==
  [x \in DOMAIN table \cup {k} |->
     IF x = k
     THEN IF k \in DOMAIN table THEN table[k] + 1 ELSE 1
     ELSE table[x]]

\* ProcessLine without the pedantic branch: a line without a candidate is
\* always skipped.
ProcessLineNeverBails(table, line, pattern, key, pedantic, fixed_ips) ==
  LET m == Candidate(line, pattern, key, fixed_ips)
  IN  IF IsSome(m)
      THEN [ok |-> TRUE, stats |-> EntryIncrement(table, Normalize(Unwrap(m)))]
      ELSE [ok |-> TRUE, stats |-> table]

\* The body of the read loop for one line (main.rs:27-55): the table after
\* the line, and whether the loop goes on (ok) or bails out.
ProcessLine(table, line, pattern, key, pedantic, fixed_ips) ==
  LET m == Candidate(line, pattern, key, fixed_ips)
  IN  IF IsSome(m)
      THEN [ok |-> TRUE, stats |-> EntryIncrement(table, Normalize(Unwrap(m)))]
      ELSE IF pedantic
           THEN [ok |-> FALSE, stats |-> table]
           ELSE [ok |-> TRUE, stats |-> table]

\* process_file as a function (main.rs:22-59): the table after the lines of
\* one source, none of which makes the loop bail out.
RECURSIVE ScanLines(_, _, _, _, _, _)
ScanLines(table, lines, pattern, key, pedantic, fixed_ips) ==
  IF lines = << >>
  THEN table
  ELSE ScanLines(ProcessLine(table, Head(lines), pattern, key, pedantic,
                             fixed_ips).stats,
                 Tail(lines), pattern, key, pedantic, fixed_ips)

\* main's loop over the files as a function (main.rs:178-189).
RECURSIVE ScanSources(_, _, _, _, _, _)
ScanSources(table, srcs, pattern, key, pedantic, fixed_ips) ==
  IF srcs = << >>
  THEN table
  ELSE ScanSources(ScanLines(table, Head(srcs), pattern, key, pedantic, fixed_ips),
                   Tail(srcs), pattern, key, pedantic, fixed_ips)

\* ------------------------------------------------------------------ formats

Placeholders == {"{cnt}", "{ip}", "{host}", "{host:>8}"}

\* The variable a placeholder names.
PlaceholderName(tok) ==
  CASE tok = "{cnt}" -> "cnt"
    [] tok = "{ip}" -> "ip"
    [] OTHER -> "host"

\* The --format values tried.
CustomFormats ==
  { <<"{cnt}", " ", "{host}">>,
    <<"{cnt}", " ", "{host:>8}">> }

\* str::contains for a one-token needle.
Contains(s, tok) == \E i \in 1..Len(s) : s[i] = tok

\* HostWithNumeric with the check left out.
HostWithNumericUnchecked(numeric, fmt) == FALSE

\* main.rs:148: the combination main refuses.
HostWithNumeric(numeric, fmt) == numeric /\ Contains(fmt, "{host}")

\* main.rs:146-156: the template of the run.
ChooseFormat(custom, numeric) ==
  IF IsSome(custom)
  THEN Unwrap(custom)
  ELSE IF numeric
       THEN <<"{cnt}", " ", "{ip}">>
       ELSE <<"{cnt}", " ", "{host}", " ", "(", "{ip}", ")">>

\* -------------------------------------------------------------- print_stats

\* The entries of a table, as HashMap::iter yields them: (key, count).
Entries(table) == {<<k, table[k]>> : k \in DOMAIN table}

\* HashMap::iter visits the entries in an order the map does not define:
\* every enumeration of them.
IterOrders(table) ==
  LET E == Entries(table)
      n == Cardinality(E)
  IN  {s \in [1..n -> E] : \A i, j \in 1..n : i # j => s[i] # s[j]}

\* PassesThreshold with >= for >.
PassesThresholdInclusive(e, t) == e[2] >= t

\* main.rs:64-68: filter(|v| v.1 > &threshold), or every entry.
PassesThreshold(e, t) == e[2] > t

Filter(it, thresh) ==
  IF IsSome(thresh)
  THEN LET Keep(e) == PassesThreshold(e, Unwrap(thresh))
       IN  SelectSeq(it, Keep)
  ELSE it

\* InsertByKey for a descending sort.
InsertByKeyDescending(s, e) ==
  LET k == Cardinality({i \in 1..Len(s) : s[i][2] >= e[2]})
  IN  SubSeq(s, 1, k) \o <<e>> \o SubSeq(s, k + 1, Len(s))

\* One step of a stable sort by count: e goes behind the entries whose count
\* is not larger.
InsertByKey(s, e) ==
  LET k == Cardinality({i \in 1..Len(s) : s[i][2] <= e[2]})
  IN  SubSeq(s, 1, k) \o <<e>> \o SubSeq(s, k + 1, Len(s))

\* main.rs:71: sort_by_key(|n| n.1), a stable sort.
RECURSIVE SortByKey(_)
SortByKey(s) ==
  IF s = << >>
  THEN << >>
  ELSE InsertByKey(SortByKey(SubSeq(s, 1, Len(s) - 1)), s[Len(s)])

Rev(s) == [i \in 1..Len(s) |-> s[Len(s) + 1 - i]]

Take(s, n) == SubSeq(s, 1, IF n < Len(s) THEN n ELSE Len(s))

\* Limit without the two rev: the head of the ascending sequence.
LimitFromHead(s, max) ==
  IF IsSome(max)
  THEN Take(s, Unwrap(max))
  ELSE s

\* main.rs:78-82: iter().rev().take(max_results).rev(), or every entry.
Limit(s, max) ==
  IF IsSome(max)
  THEN Rev(Take(Rev(s), Unwrap(max)))
  ELSE s

\* The strings str::parse::<IpAddr> accepts, among those over the atoms.
ParsesAsIp(k) ==
  \/ \E ip \in Ipv4Atoms : k = <<ip>> \/ k = Mapped(ip)
  \/ k = <<":", ":">>
  \/ k = <<":", ":", "ffff">>

\* What lookup_addr may return.  The name is longer than the width of
\* {host:>8}, which therefore prints it as it is.
Hosts == {"host.example"}

\* main.rs:86-93: the variables of one record; host is an Option.
RecordVars(entry, host) ==
  LET base == [n \in {"cnt", "ip"} |->
                 IF n = "cnt" THEN <<ToString(entry[2])>> ELSE entry[1]]
  IN  IF IsSome(host)
      THEN [n \in {"cnt", "ip", "host"} |->
              IF n = "host" THEN <<Unwrap(host)>> ELSE base[n]]
      ELSE base

\* strfmt::strfmt fails on a placeholder that names no variable.
StrfmtOk(fmt, rvars) ==
  \A i \in 1..Len(fmt) :
    fmt[i] \in Placeholders => PlaceholderName(fmt[i]) \in DOMAIN rvars

\* strfmt::strfmt: the template with each placeholder replaced.
RECURSIVE Strfmt(_, _)
Strfmt(fmt, rvars) ==
  IF fmt = << >>
  THEN << >>
  ELSE (IF Head(fmt) \in Placeholders
        THEN rvars[PlaceholderName(Head(fmt))]
        ELSE <<Head(fmt)>>) \o Strfmt(Tail(fmt), rvars)

\* Resolves with the numeric flag ignored.
ResolvesAlways(numeric) == TRUE

\* main.rs:89: whether the loop resolves the entry's host.
Resolves(numeric) == ~numeric

\* -------------------------------------------------------------------- state

VARIABLES
  args,             \* the fields of Args that main has yet to read, but for
                    \* max_results and threshold
  overflow_checks,  \* the build panics on integer overflow (debug profile)
  pc,               \* where main is
  err,              \* the error main returned, "" for none
  format,           \* main's format
  key,              \* process_file's key, after key - 1
  stats,            \* the frequency table
  sources,          \* the sources so far: what each was read to hold
  threshold,        \* print_stats' threshold
  max_results,      \* print_stats' max_results
  retained,         \* print_stats' sorted as first bound: the filtered entries
  sorted,           \* print_stats' sorted as bound last: sorted and limited
  pos,              \* the entry the render loop is at
  out,              \* standard output, a sequence of lines
  emitted           \* the entry of each line of out

vars ==
  << args, overflow_checks, pc, err, format, key, stats, sources, threshold,
     max_results, retained, sorted, pos, out, emitted >>

scanVars == << key, stats, sources >>

printVars == << threshold, max_results, retained, sorted, pos, out, emitted >>

ArgsSet ==
  [ nfiles : 0..MaxFiles,
    numeric : BOOLEAN,
    key : 0..2,
    pedantic : BOOLEAN,
    pattern : Patterns,
    fixed_ips : BOOLEAN,
    format : {None} \cup {Some(f) : f \in CustomFormats} ]

\* The build profile only shows where key - 1 overflows.
Init ==
  /\ args \in ArgsSet
  /\ overflow_checks \in (IF args.key = 0 THEN BOOLEAN ELSE {FALSE})
  /\ pc = "main"
  /\ err = ""
  /\ format = << >>
  /\ key = 0
  /\ stats = << >>
  /\ sources = << >>
  /\ threshold = None
  /\ max_results = None
  /\ retained = {}
  /\ sorted = << >>
  /\ pos = 0
  /\ out = << >>
  /\ emitted = << >>

Fail(kind) == pc' = "error" /\ err' = kind

\* --------------------------------------------------------------------- main

\* main.rs:140-144: the pattern does not compile.
RegexError ==
  /\ pc = "main"
  /\ args.pattern = "invalid"
  /\ Fail("regex")
  /\ UNCHANGED << args, overflow_checks, format, scanVars, printVars >>

\* main.rs:146-150: {host} in a custom format together with --numeric.
FormatError ==
  /\ pc = "main"
  /\ args.pattern # "invalid"
  /\ IsSome(args.format)
  /\ HostWithNumeric(args.numeric, Unwrap(args.format))
  /\ Fail("format")
  /\ UNCHANGED << args, overflow_checks, format, scanVars, printVars >>

\* main.rs:140-160: the configuration is accepted; with no file, stdin is the
\* one source.
Configure ==
  /\ pc = "main"
  /\ args.pattern # "invalid"
  /\ ~(IsSome(args.format) /\ HostWithNumeric(args.numeric, Unwrap(args.format)))
  /\ format' = ChooseFormat(args.format, args.numeric)
  /\ IF args.nfiles = 0
     THEN /\ pc' = "process_file"
          /\ sources' = <<[lines |-> << >>, status |-> "open"]>>
     ELSE /\ pc' = "open"
          /\ sources' = sources
  /\ UNCHANGED << args, overflow_checks, err, key, stats, printVars >>

\* main.rs:179: File::open succeeds.
OpenFile ==
  /\ pc = "open"
  /\ Len(sources) < args.nfiles
  /\ sources' = Append(sources, [lines |-> << >>, status |-> "open"])
  /\ pc' = "process_file"
  /\ UNCHANGED << args, overflow_checks, err, format, key, stats, printVars >>

\* main.rs:179: File::open fails.
OpenFileError ==
  /\ pc = "open"
  /\ Len(sources) < args.nfiles
  /\ sources' = Append(sources, [lines |-> << >>, status |-> "ENOENT"])
  /\ Fail("open")
  /\ UNCHANGED << args, overflow_checks, format, key, stats, printVars >>

\* main.rs:17-20: process_file is entered and key - 1 does not panic.
ProcessFileEnter ==
  /\ pc = "process_file"
  /\ args.key >= 1 \/ ~overflow_checks
  /\ key' = WrappingSub(args.key, 1)
  /\ pc' = "read_line"
  /\ UNCHANGED << args, overflow_checks, err, format, stats, sources, printVars >>

\* main.rs:20: key - 1 overflows in a build with overflow checks.
ProcessFileOverflow ==
  /\ pc = "process_file"
  /\ args.key = 0
  /\ overflow_checks
  /\ pc' = "panic"
  /\ UNCHANGED << args, overflow_checks, err, format, scanVars, printVars >>

TotalLines == LET RECURSIVE Sum(_)
                  Sum(i) == IF i = 0 THEN 0 ELSE Len(sources[i].lines) + Sum(i - 1)
              IN  Sum(Len(sources))

\* The history with the current source changed.
WithLast(srcs, rec) == [srcs EXCEPT ![Len(srcs)] = rec]

\* main.rs:23-57: read_line returns a line, and the loop body runs on it.
ReadLine ==
  /\ pc = "read_line"
  /\ TotalLines < MaxLines
  /\ \E line \in Lines :
       LET cur == sources[Len(sources)]
           r == ProcessLine(stats, line, args.pattern, key, args.pedantic,
                            args.fixed_ips)
       IN  /\ sources' = WithLast(sources, [cur EXCEPT !.lines = Append(@, line)])
           /\ stats' = r.stats
           /\ IF r.ok
              THEN pc' = pc /\ err' = err
              ELSE Fail("extract")
  /\ UNCHANGED << args, overflow_checks, format, key, printVars >>

\* main.rs:23: read_line fails.
ReadLineError ==
  /\ pc = "read_line"
  /\ sources' = WithLast(sources, [sources[Len(sources)] EXCEPT !.status = "EIO"])
  /\ Fail("read")
  /\ UNCHANGED << args, overflow_checks, format, key, stats, printVars >>

\* main.rs:24, 59: end of the source; process_file returns Ok and main goes
\* on to the next file or to print_stats.
ReadLineEof ==
  /\ pc = "read_line"
  /\ sources' = WithLast(sources, [sources[Len(sources)] EXCEPT !.status = "eof"])
  /\ pc' = IF Len(sources) < args.nfiles THEN "open" ELSE "print_stats"
  /\ UNCHANGED << args, overflow_checks, err, format, key, stats, printVars >>

\* The --threshold values tried.
ThresholdSet == {None, Some(1), Some(2)}

\* The --max-results values tried.
MaxResultsSet == {None, Some(0), Some(1), Some(2)}

\* main.rs:64-82: what print_stats makes of the table when the map yields
\* its entries in the order it: the filtered entries and the final sorted.
Pipeline(it, thresh, max) ==
  LET f == Filter(it, thresh)
  IN  [retained |-> {f[i] : i \in 1..Len(f)},
       sorted |-> Limit(SortByKey(f), max)]

\* main.rs:170-176, 191-197 and 62-82: main calls print_stats with the
\* threshold and the limit of the command line.  The sources are closed and
\* the arguments of process_file are read no more: of args only numeric is
\* still live.  The table is filtered in the map's order, sorted and cut.
PrintStats ==
  /\ pc = "print_stats"
  /\ \E t \in ThresholdSet, n \in MaxResultsSet :
       \E r \in {Pipeline(it, t, n) : it \in IterOrders(stats)} :
         /\ threshold' = t
         /\ max_results' = n
         /\ retained' = r.retained
         /\ sorted' = r.sorted
  /\ pos' = 1
  /\ pc' = "render"
  /\ sources' = << >>
  /\ key' = 0
  /\ args' = [numeric |-> args.numeric]
  /\ UNCHANGED << overflow_checks, err, format, stats, out, emitted >>

Rendering == pc = "render" /\ pos <= Len(sorted)

renderFrame == << args, overflow_checks, format, scanVars, threshold, max_results,
                  retained, sorted, pos, out, emitted >>

\* main.rs:90: the key is no IP address.
RenderParseError ==
  /\ Rendering
  /\ Resolves(args.numeric)
  /\ ~ParsesAsIp(sorted[pos][1])
  /\ Fail("parse")
  /\ UNCHANGED renderFrame

\* main.rs:91: the reverse lookup fails.
RenderLookupError ==
  /\ Rendering
  /\ Resolves(args.numeric)
  /\ ParsesAsIp(sorted[pos][1])
  /\ Fail("lookup")
  /\ UNCHANGED renderFrame

\* main.rs:86-94: one record is resolved (unless numeric), formatted and
\* printed, or strfmt fails on it.
RenderEntry ==
  /\ Rendering
  /\ \E host \in (IF Resolves(args.numeric) THEN {Some(h) : h \in Hosts} ELSE {None}) :
       LET rvars == RecordVars(sorted[pos], host)
       IN  /\ Resolves(args.numeric) => ParsesAsIp(sorted[pos][1])
           /\ IF StrfmtOk(format, rvars)
              THEN /\ out' = Append(out, Strfmt(format, rvars))
                   /\ emitted' = Append(emitted, sorted[pos])
                   /\ pos' = pos + 1
                   /\ pc' = pc /\ err' = err
              ELSE /\ Fail("strfmt")
                   /\ UNCHANGED << out, emitted, pos >>
  /\ UNCHANGED << args, overflow_checks, format, scanVars, threshold, max_results,
                  retained, sorted >>

\* main.rs:96, 199: the loop is over; print_stats and main return Ok.
RenderDone ==
  /\ pc = "render"
  /\ pos > Len(sorted)
  /\ pc' = "done"
  /\ UNCHANGED << args, overflow_checks, err, format, scanVars, printVars >>

Next ==
  \/ RegexError
  \/ FormatError
  \/ Configure
  \/ OpenFile
  \/ OpenFileError
  \/ ProcessFileEnter
  \/ ProcessFileOverflow
  \/ ReadLine
  \/ ReadLineError
  \/ ReadLineEof
  \/ PrintStats
  \/ RenderParseError
  \/ RenderLookupError
  \/ RenderEntry
  \/ RenderDone

Spec == Init /\ [][Next]_vars

\* ------------------------------------------------------------------ claims

\* The states in which main has not called print_stats yet (or never will):
\* args is whole and sources holds everything read.
Scanning ==
  \/ pc \in {"main", "open", "process_file", "read_line", "print_stats", "panic"}
  \/ pc = "error" /\ err \in {"regex", "format", "open", "read", "extract"}

\* print_stats has returned, with Ok or with an error.
PrintReturned ==
  \/ pc = "done"
  \/ pc = "error" /\ err \in {"parse", "lookup", "strfmt"}

\* The places <<i, j>> of the lines read: line j of source i.
Places == {<<i, j>> : i \in 1..Len(sources), j \in 1..MaxLines} \cap
          {p \in (1..Len(sources)) \X (1..MaxLines) : p[2] <= Len(sources[p[1]].lines)}

LineAt(p) == sources[p[1]].lines[p[2]]

\* The candidate the run selects on a line, from the command line's key: the
\* trimmed line in fixed mode, the key-th match (counted from 1) otherwise.
Selected(line) ==
  IF args.fixed_ips
  THEN Some(Trim(line))
  ELSE LET ms == FindIter(args.pattern, line)
       IN  IF args.key \in 1..Len(ms) THEN Some(ms[args.key]) ELSE None

\* A candidate without one leading "::ffff:".
Stripped(c) ==
  IF Len(c) >= 4 /\ c[1] = ":" /\ c[2] = ":" /\ c[3] = "ffff" /\ c[4] = ":"
  THEN [i \in 1..(Len(c) - 4) |-> c[i + 4]]
  ELSE c

\* The lines read whose selected candidate normalizes to a.
PlacesOf(a) ==
  {p \in Places : IsSome(Selected(LineAt(p))) /\ Stripped(Unwrap(Selected(LineAt(p)))) = a}

SelectedKeys ==
  {Stripped(Unwrap(Selected(LineAt(p)))) : p \in {q \in Places : IsSome(Selected(LineAt(q)))}}

Min(a, b) == IF a < b THEN a ELSE b

\* C1: while the sources are scanned and when the scan is over, the table's
\* count of every string is the number of lines read, over all sources, whose
\* selected candidate normalizes to it, and a string selected on no line is no
\* key; an empty table gives an empty report; and once every source is read,
\* scanning the same sources in any other order gives the same table.
C1_CountsAreAdditive ==
  /\ Scanning =>
       /\ DOMAIN stats = SelectedKeys
       /\ \A a \in DOMAIN stats : stats[a] = Cardinality(PlacesOf(a))
  /\ DOMAIN stats = {} => out = << >>
  /\ pc = "print_stats" =>
       \A perm \in Permutations(1..Len(sources)) :
         ScanSources(<< >>, [i \in 1..Len(sources) |-> sources[perm[i]].lines],
                     args.pattern, key, args.pedantic, args.fixed_ips) = stats

\* C1 witness: two different sources are read to their ends, and a key is
\* counted on lines of both.
C1_Witness ==
  /\ pc = "print_stats"
  /\ args.key >= 1
  /\ ~args.fixed_ips
  /\ Len(sources) = 2
  /\ sources[1].lines # sources[2].lines
  /\ Cardinality(DOMAIN stats) >= 2
  /\ \E a \in DOMAIN stats :
       /\ \E p \in PlacesOf(a) : p[1] = 1
       /\ \E p \in PlacesOf(a) : p[1] = 2

\* C2: in a run with key >= 1, in pattern mode and in fixed mode, every key of
\* the table is a non-empty string, and is the candidate of a line read
\* without one leading "::ffff:".
C2_KeysNonEmptyAndStripped ==
  (Scanning /\ args.key >= 1) =>
    \A k \in DOMAIN stats :
      /\ k # << >>
      /\ \E p \in Places :
           /\ IsSome(Selected(LineAt(p)))
           /\ k = Stripped(Unwrap(Selected(LineAt(p))))

\* C3: a run with key = 0 never enters process_file: it reads no line and
\* does not get to key - 1.
C3_KeyZeroRejected ==
  (Scanning /\ args.key = 0) =>
     /\ pc \notin {"read_line", "panic"}
     /\ Places = {}

\* A source that could not be opened or read.
IoFailed(src) == src.status \in {"ENOENT", "EIO"}

\* The lines read that yield no candidate in pedantic pattern mode.
PedanticMisses ==
  IF args.pedantic /\ ~args.fixed_ips
  THEN {p \in Places : ~IsSome(Selected(LineAt(p)))}
  ELSE {}

\* C4: when a source cannot be opened or read, or a line yields no candidate
\* in pedantic pattern mode, the run is in error with nothing printed, and the
\* failure is the last thing the scan did: no source follows the failed one
\* and no line follows the rejected one.
C4_ScanFailureAborts ==
  Scanning =>
    /\ \A i \in 1..Len(sources) :
         IoFailed(sources[i]) =>
           /\ pc = "error"
           /\ err = (IF sources[i].status = "ENOENT" THEN "open" ELSE "read")
           /\ out = << >>
           /\ i = Len(sources)
    /\ \A p \in PedanticMisses :
         /\ pc = "error"
         /\ err = "extract"
         /\ out = << >>
         /\ p[1] = Len(sources)
         /\ p[2] = Len(sources[p[1]].lines)
    /\ (pc = "error" /\ err \in {"open", "read", "extract"}) => out = << >>

\* C4 witness: the second source has a line without a candidate after lines
\* were counted, and the run has stopped there.
C4_Witness ==
  /\ pc = "error"
  /\ err = "extract"
  /\ Len(sources) = 2
  /\ DOMAIN stats # {}
  /\ PedanticMisses # {}

\* print_stats has built its final sorted (main.rs:64-82).
Printing == pc \in {"render", "done"} \/ PrintReturned

EmittedSet == {emitted[i] : i \in 1..Len(emitted)}

\* What C5 says of the lines emitted under max_results = N.
LimitHolds ==
  /\ Len(out) = Min(Unwrap(max_results), Cardinality(retained))
  /\ Len(emitted) = Len(out)
  /\ EmittedSet \subseteq retained
  /\ \A e \in EmittedSet : \A f \in retained \ EmittedSet : e[2] >= f[2]
  /\ \A i, j \in 1..Len(emitted) : i < j => emitted[i][2] <= emitted[j][2]

\* C5 as stated: whenever print_stats has returned with max_results = N, it
\* has emitted exactly min(N, entries passing the filter) entries, none with a
\* smaller count than an entry passing the filter that was not emitted, in
\* ascending order of count.  Stated for the tables whose keys all are IP
\* addresses, the tables print_stats is meant for.
C5_LimitOnEveryReturn ==
  (PrintReturned /\ IsSome(max_results) /\ \A e \in retained : ParsesAsIp(e[1])) =>
    LimitHolds

\* C5, amended: the same when print_stats has returned Ok.
C5_LimitOnSuccess ==
  (pc = "done" /\ IsSome(max_results)) => LimitHolds

\* C5 witness: a successful render in which the limit of 1 cut off an entry
\* of smaller count.
C5_Witness ==
  /\ pc = "done"
  /\ max_results = Some(1)
  /\ Len(out) = 1
  /\ \E f \in retained : f[2] < emitted[1][2]

C7_HostWithNumericRejected ==
  (Scanning /\ args.numeric /\ IsSome(args.format)
     /\ \E i \in 1..Len(Unwrap(args.format)) : Unwrap(args.format)[i] = "{host}") =>
    /\ pc \in {"main", "error"}
    /\ pc = "error" => err \in {"regex", "format"}
    /\ sources = << >>
    /\ DOMAIN stats = {}
    /\ out = << >>

\* C7 witness: the run with two files to scan has ended on the format check.
C7_Witness ==
  /\ pc = "error"
  /\ err = "format"
  /\ args.nfiles = 2
  /\ args.numeric

\* The table of the example of C8.
ExampleTable == (<<"1.2.3.4">> :> 2) @@ (<<"5.6.7.8">> :> 1)

\* C8: when print_stats has returned Ok, it has emitted one line for each
\* entry that passed filter and limit, each address once and no other, with
\* counts that never decrease; the table {1.2.3.4: 2, 5.6.7.8: 1} with
\* numeric = true comes out as 5.6.7.8 and then 1.2.3.4.
C8_OneLinePerEntryAscending ==
  pc = "done" =>
    /\ Len(out) = Len(emitted)
    /\ Len(emitted) = Cardinality(EmittedSet)
    /\ EmittedSet \subseteq retained
    /\ Len(emitted) = IF IsSome(max_results)
                      THEN Min(Unwrap(max_results), Cardinality(retained))
                      ELSE Cardinality(retained)
    /\ \A e \in EmittedSet : \A f \in retained \ EmittedSet : e[2] >= f[2]
    /\ \A i, j \in 1..Len(emitted) :
         i < j => emitted[i][1] # emitted[j][1] /\ emitted[i][2] <= emitted[j][2]
    /\ (args.numeric /\ stats = ExampleTable /\ threshold = None /\ max_results = None) =>
         /\ emitted = << <<<<"5.6.7.8">>, 1>>, <<<<"1.2.3.4">>, 2>> >>
         /\ format = <<"{cnt}", " ", "{ip}">> =>
              out = << <<"1", " ", "5.6.7.8">>, <<"2", " ", "1.2.3.4">> >>

\* C8 witness: the example table has been printed in full with numeric = true.
C8_Witness ==
  /\ pc = "done"
  /\ args.numeric
  /\ stats = ExampleTable
  /\ Len(out) = 2
  /\ format = <<"{cnt}", " ", "{ip}">>

\* C9: the render loop prints the entries of sorted one by one, in order; with
\* numeric = false a key that does not parse or a failed lookup at position i
\* ends the run in error with exactly the i-1 entries before it printed, and
\* no key that does not parse is ever printed; with numeric = true there is
\* no parse or lookup error.
C9_ResolutionStopsRendering ==
  Printing =>
    /\ Len(out) = Len(emitted)
    /\ emitted = SubSeq(sorted, 1, Len(out))
    /\ (pc = "error" /\ err \in {"parse", "lookup"}) =>
         /\ ~args.numeric
         /\ pos \in 1..Len(sorted)
         /\ Len(out) = pos - 1
         /\ (err = "parse") = ~ParsesAsIp(sorted[pos][1])
         /\ \A i \in 1..(pos - 1) : ParsesAsIp(sorted[i][1])
    /\ ~args.numeric => \A i \in 1..Len(emitted) : ParsesAsIp(emitted[i][1])
    /\ args.numeric => err \notin {"parse", "lookup"}

\* C9 witness: the lookup of the second entry failed after the first was
\* printed.
C9_Witness ==
  /\ pc = "error"
  /\ err = "lookup"
  /\ pos = 2
  /\ Len(out) = 1
  /\ Len(sorted) >= 2

\* The step reads a line into the current source.
ReadsLine ==
  /\ pc = "read_line"
  /\ Len(sources') = Len(sources)
  /\ Len(sources'[Len(sources)].lines) = Len(sources[Len(sources)].lines) + 1

\* The table after the step is the table before with the count of k one
\* higher, and nothing else changed.
OnlyIncrements(k) ==
  /\ DOMAIN stats' = DOMAIN stats \cup {k}
  /\ stats'[k] = IF k \in DOMAIN stats THEN stats[k] + 1 ELSE 1
  /\ \A x \in DOMAIN stats \ {k} : stats'[x] = stats[x]

\* What C10 says of one step.
C10_Step ==
  ReadsLine =>
    LET cur == sources'[Len(sources)]
        line == cur.lines[Len(cur.lines)]
    IN  /\ args.fixed_ips =>
             /\ OnlyIncrements(Stripped(Trim(line)))
             /\ pc' = "read_line"
        /\ (~args.fixed_ips /\ ~args.pedantic
              /\ Len(FindIter(args.pattern, line)) < args.key) =>
             /\ stats' = stats
             /\ pc' = "read_line"

=============================================================================
